---- MODULE Spec2Model ----
(***************************************************************************)
(* The playout engine of tunarr: VideoStream.startStream (the Playout      *)
(* Orchestrator with its redirect walk, bound propagation, Playback Cache  *)
(* and Throttle Guard calls) and JellyfinPlayer (a content-backed Player   *)
(* Supervisor variant: play, the ffmpeg event handlers, cleanUp).          *)
(*                                                                         *)
(* Times are in seconds.  The source counts milliseconds; one year in      *)
(* milliseconds (VideoStream.ts:199) does not fit TLC's 32-bit integers,   *)
(* so every duration of the source is divided by 1000.                     *)
(***************************************************************************)
EXTENDS Integers, Sequences, FiniteSets, TLC

VARIABLES lineups, cache, attempts, nreq, rq, pl

vars == <<lineups, cache, attempts, nreq, rq, pl>>

(***************************************************************************)
(* Bounds of the model.                                                    *)
(***************************************************************************)
\* startStream requests made one after another in one behaviour
MaxRequests == 3
\* calls of stop() the caller makes on one startStream result
MaxStops == 2
\* direct calls of cleanUp() on one player (SpecPlayer)
MaxCleanUps == 2
\* seconds of output of one transcoder that are followed (SpecPlayer)
MaxPlayed == 20

(***************************************************************************)
(* Program constants.                                                      *)
(***************************************************************************)
\* the value that stands for "undefined" in a numeric field
NoVal == -1
\* Number.MAX_SAFE_INTEGER; TLC's largest integer stands in for 2^53 - 1
MAX_SAFE_INTEGER == 2147483647
\* constants.SLACK of @tunarr/shared (9999 ms)
SLACK == 10
\* duration of the synthetic error items, 60000 ms
ErrorDuration == 60000 \div 1000
\* const t = 365 * 24 * 60 * 60 * 1000, in seconds
OneYear == 365 * 24 * 60 * 60
\* the Throttle Guard's threshold N
ThrottleThreshold == 2

Min(a, b) == IF a <= b THEN a ELSE b

(***************************************************************************)
(* The channel store.  Channels holds the ids getChannel and               *)
(* loadChannelAndLineup find; Missing is an id they do not find; Undef is  *)
(* a request that names no channel.                                        *)
(***************************************************************************)
Channels == {"A", "B", "C"}
Missing == "X"
Undef == "undefined"
Sessions == {0}
Times == {35, 69}

Content == [type |-> "content", duration |-> 60, channel |-> ""]
Offline == [type |-> "offline", duration |-> 40, channel |-> ""]
OfflineLong == [type |-> "offline", duration |-> 50, channel |-> ""]
OfflineZero == [type |-> "offline", duration |-> 0, channel |-> ""]
Redirect(c) == [type |-> "redirect", duration |-> 30, channel |-> c]
NoProgramSlot == [type |-> "none", duration |-> 0, channel |-> ""]

\* the lineups a channel may be configured with: a cycle of one, two or three
\* channels, a chain of one or two hops, a hop to a missing channel, and at the
\* end of a chain content, an offline slot (of 40 s, of 50 s, or of no length at
\* all: the permanently offline channel of spec 3), both, or no slot at all
PlainLineups == {<<>>, <<Content>>, <<Offline>>, <<Offline, Content>>}
LineupsOf(c) ==
    CASE c = "A" -> {<<Redirect("A")>>, <<Redirect("B")>>, <<Offline, Redirect("B")>>}
      [] c = "B" -> PlainLineups \cup {<<Redirect("A")>>, <<Redirect("C")>>,
                                        <<Offline, Redirect("C")>>, <<Redirect(Missing)>>}
      [] OTHER -> {<<Content>>, <<Offline>>, <<OfflineLong>>, <<OfflineZero>>,
                   <<Offline, Content>>, <<Redirect("A")>>}

(***************************************************************************)
(* Lineup Resolver (spec 4.1): the slot airing at timestamp t.             *)
(***************************************************************************)
RECURSIVE TotalDuration(_)
TotalDuration(l) == IF l = <<>> THEN 0 ELSE Head(l).duration + TotalDuration(Tail(l))

RECURSIVE SlotAt(_, _, _)
SlotAt(l, i, elapsed) ==
    IF i = Len(l) \/ elapsed < l[i].duration
    THEN [program |-> l[i], timeElapsed |-> elapsed, programIndex |-> i - 1]
    ELSE SlotAt(l, i + 1, elapsed - l[i].duration)

NoProgram == [program |-> NoProgramSlot, timeElapsed |-> 0, programIndex |-> -1]

getCurrentProgramAndTimeElapsed(t, l) ==
    IF l = <<>> THEN NoProgram
    ELSE IF TotalDuration(l) = 0
    THEN [program |-> l[1], timeElapsed |-> 0, programIndex |-> 0]
    ELSE SlotAt(l, 1, t % TotalDuration(l))

(***************************************************************************)
(* Playable Items.                                                         *)
(***************************************************************************)
NoItem ==
    [type |-> "none", start |-> 0, duration |-> 0, streamDuration |-> NoVal,
     beginningOffset |-> NoVal, error |-> ""]

\* the item of a failure, of kind offline instead of error
ErrorItemOfKindOffline(msg) ==
    [type |-> "offline", start |-> 0, duration |-> ErrorDuration,
     streamDuration |-> NoVal, beginningOffset |-> NoVal, error |-> msg]

ErrorItem(msg) ==
    [type |-> "error", start |-> 0, duration |-> ErrorDuration,
     streamDuration |-> NoVal, beginningOffset |-> NoVal, error |-> msg]

\* createOfflineStreamLineupIteam(duration), as a program of a resolution
createOfflineStreamLineupIteam(d) == [type |-> "offline", duration |-> d, channel |-> ""]

\* StreamProgramCalculator.createLineupItem: the Playable Item of a Resolved Program
createLineupItem(cp) ==
    LET remaining == cp.program.duration - cp.timeElapsed IN
    CASE cp.program.type = "content" ->
            [type |-> "program", start |-> cp.timeElapsed, duration |-> cp.program.duration,
             streamDuration |-> remaining, beginningOffset |-> cp.timeElapsed, error |-> ""]
      [] cp.program.type = "offline" ->
            [type |-> "offline", start |-> 0, duration |-> remaining,
             streamDuration |-> remaining, beginningOffset |-> NoVal, error |-> ""]
      [] OTHER ->
            [type |-> "error", start |-> 0, duration |-> cp.program.duration,
             streamDuration |-> NoVal, beginningOffset |-> NoVal, error |-> "missing"]

(***************************************************************************)
(* Playback Cache (spec 4.3): the most recently recorded item per channel. *)
(***************************************************************************)
NoEntry == [t |-> NoVal, item |-> NoItem]

recordPlayback(c, t, item) == [cache EXCEPT ![c] = [t |-> t, item |-> item]]

clearPlayback(c) == [cache EXCEPT ![c] = NoEntry]

\* a hit needs an entry recorded for exactly this timestamp
getCurrentLineupItem(c, t) == IF cache[c].t = t THEN cache[c].item ELSE NoItem

(***************************************************************************)
(* State.  rq[r] holds the locals of one startStream invocation and its    *)
(* result; pl[r] holds the player it created.  loads, resolutions and      *)
(* writes count the loadChannelAndLineup, getCurrentProgramAndTimeElapsed  *)
(* and recordPlayback calls of the invocation.                             *)
(***************************************************************************)
Reqs == {1, 2}

\* the invocation that runs where requests come one after another
Solo == {1}

\* what an invocation was asked for and what it arrived at when it ran alone
NoAlone ==
    [channel |-> Undef, t |-> 0, allowSkip |-> FALSE, at |-> 0, item |-> NoItem,
     error |-> ""]

\* the program of a missing target without the override of its kind
ErrorProgramStaysOffline == createOfflineStreamLineupIteam(ErrorDuration)

ErrorProgram == [type |-> "error", duration |-> ErrorDuration, channel |-> ""]

IdleRq ==
    [pc |-> "idle", channel |-> Undef, session |-> 0, allowSkip |-> FALSE, t |-> 0,
     channelContext |-> Undef, currentProgram |-> NoProgram,
     redirectChannels |-> <<>>, upperBounds |-> <<>>, upperBound |-> MAX_SAFE_INTEGER,
     lineupItem |-> NoItem, ownDuration |-> NoVal, i |-> 0,
     result |-> "none", httpStatus |-> 0, error |-> "",
     stopped |-> FALSE, stopCalls |-> 0, cleanUps |-> 0, sinkEnds |-> 0, handlers |-> FALSE,
     cycle |-> FALSE, missing |-> FALSE, throttled |-> FALSE, failedBefore |-> 0,
     skips |-> 0,
     resolutions |-> 0, loads |-> 0, writes |-> 0, alone |-> NoAlone]

Elems(s) == {s[k] : k \in 1..Len(s)}

IsRedirect(cp) == cp # NoProgram /\ cp.program.type = "redirect"

\* return { type: 'error', httpStatus, message }
ReturnError(rec, status, why) ==
    [rec EXCEPT !.pc = "done", !.result = "error", !.httpStatus = status, !.error = why]

(***************************************************************************)
(* A player.  procs[1] is the FFMPEG object play() creates (line 79),      *)
(* procs[2] the one the 'error' handler creates (line 161); ffmpeg is the  *)
(* index this.ffmpeg refers to, 0 for null.  server is what db.findOne     *)
(* answered, updatePlayStatus the setting as read at line 129, scheduled   *)
(* the number of scheduleTask calls, first the seed of the scheduled task, *)
(* played the seconds of output the transcoder has fed into the sink.      *)
(***************************************************************************)
Events == {"end", "close", "error"}

NoProc ==
    [role |-> "none", spawned |-> FALSE, kills |-> 0, piped |-> FALSE, keepOpen |-> FALSE,
     lis |-> "none", raised |-> {}, duration |-> NoVal, seek |-> NoVal]

NoPlayer ==
    [variant |-> "none", pc |-> "none", outcome |-> "pending", item |-> NoItem,
     ffmpeg |-> 0, killed |-> FALSE, task |-> FALSE, taskStops |-> 0, cleanUps |-> 0,
     procs |-> [p \in {1, 2} |-> NoProc], emitted |-> {}, cap |-> NoVal,
     detailsDuration |-> NoVal, lateSpawn |-> FALSE, pipeEnded |-> FALSE,
     server |-> "unknown", updatePlayStatus |-> "unread", scheduled |-> 0, first |-> FALSE,
     played |-> 0]

\* new ProgramPlayer(playerContext): the variant is chosen by the item's kind
NewPlayer(item) ==
    [NoPlayer EXCEPT !.variant = IF item.type = "program" THEN "content" ELSE "slate",
                     !.pc = "new", !.item = item]

\* cleanUp that returns at once when the player is already marked as killed
cleanUpUnlessKilled(p) ==
    IF p.killed THEN [p EXCEPT !.cleanUps = @ + 1]
    ELSE [p EXCEPT !.killed = TRUE,
                   !.taskStops = IF p.task THEN @ + 1 ELSE @,
                   !.procs = IF p.ffmpeg # 0
                             THEN [@ EXCEPT ![p.ffmpeg].kills = @ + 1]
                             ELSE @,
                   !.ffmpeg = 0,
                   !.cleanUps = @ + 1]

(***************************************************************************)
(* JellyfinPlayer.cleanUp, lines 34-45.                                    *)
(***************************************************************************)
cleanUp(p) ==
    [p EXCEPT !.killed = TRUE,
              !.taskStops = IF p.task THEN @ + 1 ELSE @,
              !.procs = IF p.ffmpeg # 0
                        THEN [@ EXCEPT ![p.ffmpeg].kills = @ + 1]
                        ELSE @,
              !.ffmpeg = 0,
              !.cleanUps = @ + 1]

(***************************************************************************)
(* startStream's stop closure, lines 321-329.                              *)
(***************************************************************************)
\* stop without its stopped flag
stopRqEveryTime(rec) == [rec EXCEPT !.cleanUps = @ + 1, !.sinkEnds = @ + 1]

stopRq(rec) ==
    IF rec.stopped THEN rec
    ELSE [rec EXCEPT !.stopped = TRUE, !.cleanUps = @ + 1, !.sinkEnds = @ + 1]

stopPl(rec, p) == IF rec.stopped THEN p ELSE cleanUp(p)

(***************************************************************************)
(* Throttle Guard (spec 4.4): failed attempts per session.                 *)
(***************************************************************************)
wereThereTooManyAttempts(s, item) == attempts[s] >= ThrottleThreshold

AttemptsAfter(s, item) ==
    IF attempts[s] >= ThrottleThreshold THEN attempts
    ELSE IF item.type = "error" THEN [attempts EXCEPT ![s] = @ + 1]
    ELSE [attempts EXCEPT ![s] = 0]

\* the sliding window of a session runs out
ThrottleExpire(s) ==
    /\ attempts[s] > 0
    /\ attempts' = [attempts EXCEPT ![s] = 0]
    /\ UNCHANGED <<lineups, cache, nreq, rq, pl>>

(***************************************************************************)
(* startStream, lines 58-117: validation and the first resolution.  Also   *)
(* the body of the skip-ahead re-invocation, which passes the same req.    *)
(***************************************************************************)
Enter(rec, ch, s, t, skip, ffmpegExists) ==
    LET base == [rec EXCEPT !.channel = ch, !.session = s, !.t = t, !.allowSkip = skip,
                            !.channelContext = ch, !.currentProgram = NoProgram,
                            !.redirectChannels = <<>>, !.upperBounds = <<>>,
                            !.upperBound = MAX_SAFE_INTEGER, !.lineupItem = NoItem,
                            !.ownDuration = NoVal, !.i = 0,
                            !.resolutions = 0, !.loads = 0, !.writes = 0]
    IN  IF ch = Undef THEN ReturnError(base, 400, "noChannel")
        ELSE IF ch \notin Channels THEN ReturnError(base, 404, "notFound")
        ELSE IF ~ffmpegExists THEN ReturnError(base, 500, "ffmpegMissing")
        ELSE [base EXCEPT !.pc = "walk",
                          !.currentProgram = getCurrentProgramAndTimeElapsed(t, lineups[ch]),
                          !.resolutions = @ + 1]

StartStream(r) ==
    /\ rq[r].pc \in {"idle", "done"}
    /\ nreq < MaxRequests
    /\ \E ch \in Channels \cup {Missing, Undef}, s \in Sessions, t \in Times,
          skip \in BOOLEAN, ffmpegExists \in BOOLEAN :
            rq' = [rq EXCEPT ![r] = Enter(IdleRq, ch, s, t, skip, ffmpegExists)]
    /\ nreq' = nreq + 1
    /\ pl' = [pl EXCEPT ![r] = NoPlayer]
    /\ UNCHANGED <<lineups, cache, attempts>>

(***************************************************************************)
(* The redirect walk, lines 119-179.                                       *)
(***************************************************************************)
\* WalkHead with the cycle test left out: nothing is recorded for a revisit
WalkHeadNoRecord(r) ==
    /\ rq[r].pc = "walk"
    /\ LET rec == rq[r]
           cp == rec.currentProgram
           visited == Append(rec.redirectChannels, rec.channelContext)
       IN  IF IsRedirect(cp)
           THEN rq' = [rq EXCEPT ![r] =
                          [rec EXCEPT !.pc = "load",
                                      !.redirectChannels = visited,
                                      !.upperBounds = Append(@, cp.program.duration - cp.timeElapsed),
                                      !.cycle = @ \/ cp.program.channel \in Elems(visited)]]
           ELSE rq' = [rq EXCEPT ![r] = [rec EXCEPT !.pc = "resolved"]]
    /\ UNCHANGED <<lineups, cache, attempts, nreq, pl>>

\* lines 119-142: the loop test, the two pushes and the cycle test
WalkHead(r) ==
    /\ rq[r].pc = "walk"
    /\ LET rec == rq[r]
           cp == rec.currentProgram
           visited == Append(rec.redirectChannels, rec.channelContext)
       IN  IF IsRedirect(cp)
           THEN /\ rq' = [rq EXCEPT ![r] =
                            [rec EXCEPT !.pc = "load",
                                        !.redirectChannels = visited,
                                        !.upperBounds = Append(@, cp.program.duration - cp.timeElapsed),
                                        !.cycle = @ \/ cp.program.channel \in Elems(visited),
                                        !.writes = IF cp.program.channel \in Elems(visited)
                                                   THEN @ + 1 ELSE @]]
                /\ cache' = IF cp.program.channel \in Elems(visited)
                            THEN recordPlayback(rec.channelContext, rec.t, ErrorItem("cycle"))
                            ELSE cache
           ELSE /\ rq' = [rq EXCEPT ![r] = [rec EXCEPT !.pc = "resolved"]]
                /\ cache' = cache
    /\ UNCHANGED <<lineups, attempts, nreq, pl>>

\* WalkLoad that fails the whole request when the target cannot be loaded
WalkLoadFailsRequest(r) ==
    /\ rq[r].pc = "load"
    /\ LET rec == rq[r]
           nextChannelId == rec.currentProgram.program.channel
           cached == getCurrentLineupItem(nextChannelId, rec.t)
       IN  rq' = [rq EXCEPT ![r] =
                IF nextChannelId \notin Channels
                THEN ReturnError([rec EXCEPT !.loads = @ + 1, !.missing = TRUE], 500, "redirect")
                ELSE IF cached # NoItem
                THEN [rec EXCEPT !.pc = "resolved", !.loads = @ + 1,
                                 !.channelContext = nextChannelId,
                                 !.lineupItem = cached]
                ELSE [rec EXCEPT !.pc = "walk", !.loads = @ + 1,
                                 !.channelContext = nextChannelId,
                                 !.resolutions = @ + 1,
                                 !.currentProgram =
                                     getCurrentProgramAndTimeElapsed(rec.t, lineups[nextChannelId])]]
    /\ UNCHANGED <<lineups, cache, attempts, nreq, pl>>

\* WalkLoad that resolves the lineup of the channel it came from again
WalkLoadStaysPut(r) ==
    /\ rq[r].pc = "load"
    /\ LET rec == rq[r]
           nextChannelId == rec.currentProgram.program.channel
           cached == getCurrentLineupItem(nextChannelId, rec.t)
       IN  rq' = [rq EXCEPT ![r] =
                IF nextChannelId \notin Channels
                THEN [rec EXCEPT !.pc = "walk", !.loads = @ + 1, !.missing = TRUE,
                                 !.currentProgram = [program |-> ErrorProgram,
                                                     timeElapsed |-> 0,
                                                     programIndex |-> -1]]
                ELSE IF cached # NoItem
                THEN [rec EXCEPT !.pc = "resolved", !.loads = @ + 1,
                                 !.channelContext = nextChannelId,
                                 !.lineupItem = cached]
                ELSE [rec EXCEPT !.pc = "walk", !.loads = @ + 1,
                                 !.resolutions = @ + 1,
                                 !.currentProgram =
                                     getCurrentProgramAndTimeElapsed(rec.t,
                                                                     lineups[rec.channelContext])]]
    /\ UNCHANGED <<lineups, cache, attempts, nreq, pl>>

\* lines 144-178: load the target, consult the Playback Cache, resolve again
WalkLoad(r) ==
    /\ rq[r].pc = "load"
    /\ LET rec == rq[r]
           nextChannelId == rec.currentProgram.program.channel
           cached == getCurrentLineupItem(nextChannelId, rec.t)
       IN  rq' = [rq EXCEPT ![r] =
                IF nextChannelId \notin Channels
                THEN [rec EXCEPT !.pc = "walk", !.loads = @ + 1, !.missing = TRUE,
                                 !.currentProgram = [program |-> ErrorProgram,
                                                     timeElapsed |-> 0,
                                                     programIndex |-> -1]]
                ELSE IF cached # NoItem
                THEN [rec EXCEPT !.pc = "resolved", !.loads = @ + 1,
                                 !.channelContext = nextChannelId,
                                 !.lineupItem = cached]
                ELSE [rec EXCEPT !.pc = "walk", !.loads = @ + 1,
                                 !.channelContext = nextChannelId,
                                 !.resolutions = @ + 1,
                                 !.currentProgram =
                                     getCurrentProgramAndTimeElapsed(rec.t, lineups[nextChannelId])]]
    /\ UNCHANGED <<lineups, cache, attempts, nreq, pl>>

(***************************************************************************)
(* After the walk, lines 181-233: the offline policy and the item.         *)
(***************************************************************************)
\* the offline policy without its first rule
PermanentlyOfflineNever(rec) == FALSE

PermanentlyOffline(rec) ==
    /\ rec.currentProgram.program.type = "offline"
    /\ Len(lineups[rec.channel]) = 1
    /\ rec.currentProgram.programIndex # -1

\* SkipAhead that leaves out the slot with exactly SLACK + 1 left
SkipAheadBelowSlack(rec) ==
    /\ rec.allowSkip
    /\ rec.currentProgram.program.type = "offline"
    /\ rec.currentProgram.program.duration - rec.currentProgram.timeElapsed < SLACK + 1

SkipAhead(rec) ==
    /\ rec.allowSkip
    /\ rec.currentProgram.program.type = "offline"
    /\ rec.currentProgram.program.duration - rec.currentProgram.timeElapsed <= SLACK + 1

WithItem(rec, item) ==
    [rec EXCEPT !.pc = "unwind", !.lineupItem = item, !.ownDuration = item.streamDuration,
                !.i = Len(rec.redirectChannels)]

Resolved(r) ==
    /\ rq[r].pc = "resolved"
    /\ LET rec == rq[r]
           cp == rec.currentProgram
       IN  rq' = [rq EXCEPT ![r] =
                IF rec.lineupItem # NoItem THEN WithItem(rec, rec.lineupItem)
                ELSE IF cp = NoProgram THEN ReturnError(rec, 500, "noProgram")
                ELSE IF PermanentlyOffline(rec)
                THEN LET yr == [cp EXCEPT !.program = createOfflineStreamLineupIteam(OneYear)]
                     IN  WithItem([rec EXCEPT !.currentProgram = yr], createLineupItem(yr))
                ELSE IF SkipAhead(rec) THEN [rec EXCEPT !.pc = "clear", !.i = 0]
                ELSE WithItem(rec, createLineupItem(cp))]
    /\ UNCHANGED <<lineups, cache, attempts, nreq, pl>>

\* SkipClear that goes through the redirecting channels and clears nothing
SkipClearsNothing(r) ==
    /\ rq[r].pc = "clear"
    /\ rq[r].i < Len(rq[r].redirectChannels)
    /\ rq' = [rq EXCEPT ![r].i = @ + 1]
    /\ UNCHANGED <<lineups, cache, attempts, nreq, pl>>

\* lines 210-212: one clearPlayback per redirecting channel walked
SkipClear(r) ==
    /\ rq[r].pc = "clear"
    /\ rq[r].i < Len(rq[r].redirectChannels)
    /\ cache' = clearPlayback(rq[r].redirectChannels[rq[r].i + 1])
    /\ rq' = [rq EXCEPT ![r].i = @ + 1]
    /\ UNCHANGED <<lineups, attempts, nreq, pl>>

\* SkipRecurse that lets the re-invocation skip again
SkipRecurseAllowsSkip(r) ==
    /\ rq[r].pc = "clear"
    /\ rq[r].i = Len(rq[r].redirectChannels)
    /\ LET rec == rq[r]
           dt == rec.currentProgram.program.duration - rec.currentProgram.timeElapsed
       IN  \E ffmpegExists \in BOOLEAN :
             rq' = [rq EXCEPT ![r] =
                      Enter([rec EXCEPT !.skips = @ + 1], rec.channel, rec.session,
                            rec.t + dt + 1, rec.allowSkip, ffmpegExists)]
    /\ UNCHANGED <<lineups, cache, attempts, nreq, pl>>

\* line 216: return await this.startStream(req, startTimestamp + dt + 1, false)
SkipRecurse(r) ==
    /\ rq[r].pc = "clear"
    /\ rq[r].i = Len(rq[r].redirectChannels)
    /\ LET rec == rq[r]
           dt == rec.currentProgram.program.duration - rec.currentProgram.timeElapsed
       IN  \E ffmpegExists \in BOOLEAN :
             rq' = [rq EXCEPT ![r] =
                      Enter([rec EXCEPT !.skips = @ + 1], rec.channel, rec.session,
                            rec.t + dt + 1, FALSE, ffmpegExists)]
    /\ UNCHANGED <<lineups, cache, attempts, nreq, pl>>

(***************************************************************************)
(* Bound propagation, lines 235-262, one iteration of the for loop, and    *)
(* the record for the requested channel, lines 264-289.                    *)
(***************************************************************************)
\* Bounded that takes this hop's bound alone and forgets the bounds unwound so far
BoundedThisHopOnly(rec) ==
    LET item == rec.lineupItem
        beginningOffset == IF item.beginningOffset = NoVal THEN 0 ELSE item.beginningOffset
    IN  rec.upperBounds[rec.i] + beginningOffset

Bounded(rec) ==
    LET item == rec.lineupItem
        beginningOffset == IF item.beginningOffset = NoVal THEN 0 ELSE item.beginningOffset
        nextBound == rec.upperBounds[rec.i] + beginningOffset
        prevBound == IF item.streamDuration = NoVal THEN rec.upperBound
                     ELSE Min(rec.upperBound, item.streamDuration)
    IN  Min(nextBound, prevBound)

Unwind(r) ==
    /\ rq[r].pc = "unwind"
    /\ rq[r].i >= 1
    /\ LET rec == rq[r]
           item == [rec.lineupItem EXCEPT !.streamDuration = Bounded(rec)]
       IN  /\ cache' = recordPlayback(rec.redirectChannels[rec.i], rec.t, item)
           /\ rq' = [rq EXCEPT ![r] = [rec EXCEPT !.lineupItem = item,
                                                  !.upperBound = item.streamDuration,
                                                  !.i = @ - 1, !.writes = @ + 1]]
    /\ UNCHANGED <<lineups, attempts, nreq, pl>>

\* RecordFinal that records the item the throttle test leaves
RecordFinalAfterThrottle(r) ==
    /\ rq[r].pc = "unwind"
    /\ rq[r].i = 0
    /\ cache' = recordPlayback(rq[r].channel, rq[r].t,
                               IF wereThereTooManyAttempts(rq[r].session, rq[r].lineupItem)
                               THEN ErrorItem("throttle")
                               ELSE rq[r].lineupItem)
    /\ rq' = [rq EXCEPT ![r].pc = "play", ![r].writes = @ + 1]
    /\ UNCHANGED <<lineups, attempts, nreq, pl>>

\* lines 264-289: the record for the requested channel
RecordFinal(r) ==
    /\ rq[r].pc = "unwind"
    /\ rq[r].i = 0
    /\ cache' = recordPlayback(rq[r].channel, rq[r].t, rq[r].lineupItem)
    /\ rq' = [rq EXCEPT ![r].pc = "play", ![r].writes = @ + 1]
    /\ UNCHANGED <<lineups, attempts, nreq, pl>>

(***************************************************************************)
(* JellyfinPlayer.play, lines 47-189, cut at its awaits.                   *)
(***************************************************************************)
\* lines 47-63, up to the await of db.findOne
playBegin(p) ==
    IF p.item.type # "program"
    THEN [p EXCEPT !.pc = "done", !.outcome = "threw"]
    ELSE [p EXCEPT !.pc = "findServer"]

\* the milliseconds of a time of the model, which counts seconds
Ms(x) == x * 1000

\* lineupItem.start ?? 0
StartOf(item) == IF item.start = NoVal THEN 0 ELSE item.start

\* the cap without the slack in its test
StreamDurationCapNoSlack(item) ==
    IF item.streamDuration # NoVal
       /\ Ms(StartOf(item)) + Ms(item.streamDuration) < Ms(item.duration)
    THEN Ms(item.streamDuration) \div 1000
    ELSE NoVal

\* lines 82-90: the duration cap handed to the transcoder, in seconds
StreamDurationCap(item) ==
    IF item.streamDuration # NoVal
       /\ Ms(StartOf(item)) + Ms(item.streamDuration) + Ms(SLACK) < Ms(item.duration)
    THEN Ms(item.streamDuration) \div 1000
    ELSE NoVal

\* PlayFindServer that creates the transcoder object before it tests the answer
PlayFindServerCreatesFirst(r) ==
    /\ pl[r].pc = "findServer"
    /\ \E found \in BOOLEAN :
         pl' = [pl EXCEPT ![r] =
                  IF ~found
                  THEN [pl[r] EXCEPT !.pc = "done", !.outcome = "threw", !.server = "missing",
                                     !.ffmpeg = 1, !.procs[1].role = "transcoder"]
                  ELSE [pl[r] EXCEPT !.pc = "getStream", !.ffmpeg = 1, !.server = "found",
                                     !.procs[1].role = "transcoder",
                                     !.cap = StreamDurationCap(pl[r].item)]]
    /\ UNCHANGED <<lineups, cache, attempts, nreq, rq>>

\* lines 60-92: the source lookup answers; the transcoder object is created
PlayFindServer(r) ==
    /\ pl[r].pc = "findServer"
    /\ \E found \in BOOLEAN :
         pl' = [pl EXCEPT ![r] =
                  IF ~found
                  THEN [pl[r] EXCEPT !.pc = "done", !.outcome = "threw", !.server = "missing"]
                  ELSE [pl[r] EXCEPT !.pc = "getStream", !.ffmpeg = 1, !.server = "found",
                                     !.procs[1].role = "transcoder",
                                     !.cap = StreamDurationCap(pl[r].item)]]
    /\ UNCHANGED <<lineups, cache, attempts, nreq, rq>>

\* lines 92-189: the negotiation answers; spawn, pipe, schedule, listen
PlayGetStream(r) ==
    /\ pl[r].pc = "getStream"
    /\ \E streamOk \in BOOLEAN, hasDetails \in BOOLEAN, spawnOk \in BOOLEAN,
          updatePlayStatus \in BOOLEAN :
         LET p == pl[r] IN
         pl' = [pl EXCEPT ![r] =
                  IF ~streamOk \/ p.killed
                  THEN [p EXCEPT !.pc = "done", !.outcome = "undefined"]
                  ELSE IF ~spawnOk
                  THEN [p EXCEPT !.pc = "done", !.outcome = "threw",
                                 !.detailsDuration =
                                     IF hasDetails THEN p.item.streamDuration ELSE NoVal]
                  ELSE [p EXCEPT !.pc = "done", !.outcome = "emitter",
                                 !.detailsDuration =
                                     IF hasDetails THEN p.item.streamDuration ELSE NoVal,
                                 !.procs[p.ffmpeg] =
                                     [@ EXCEPT !.spawned = TRUE, !.piped = TRUE,
                                               !.keepOpen = TRUE, !.lis = "main",
                                               !.duration = p.cap,
                                               !.seek = Ms(StartOf(p.item)) \div 1000],
                                 !.task = updatePlayStatus,
                                 !.updatePlayStatus = IF updatePlayStatus THEN "on" ELSE "off",
                                 !.scheduled = IF updatePlayStatus THEN @ + 1 ELSE @,
                                 !.first = updatePlayStatus,
                                 !.lateSpawn = @ \/ p.cleanUps > 0]]
    /\ UNCHANGED <<lineups, cache, attempts, nreq, rq>>

\* the player variant of an offline or error item: a slate process fed into the sink
slatePlay(p) ==
    [p EXCEPT !.pc = "done", !.outcome = "emitter", !.ffmpeg = 1,
              !.procs[1] = [NoProc EXCEPT !.role = "slate", !.spawned = TRUE, !.piped = TRUE,
                                          !.keepOpen = TRUE, !.lis = "slate",
                                          !.duration = p.item.duration]]

\* ProgramPlayer.play: the variant's play
play(p) == IF p.variant = "content" THEN playBegin(p) ELSE slatePlay(p)

(***************************************************************************)
(* startStream, lines 291-333: throttle, build the player, call play().    *)
(***************************************************************************)
\* the throttle verdict ignored
ThrottledNever(rec) == rec.lineupItem

Throttled(rec) ==
    IF wereThereTooManyAttempts(rec.session, rec.lineupItem)
    THEN ErrorItem("throttle")
    ELSE rec.lineupItem

Play(r) ==
    /\ rq[r].pc = "play"
    /\ LET rec == rq[r]
           item == Throttled(rec)
       IN  /\ rq' = [rq EXCEPT ![r] = [rec EXCEPT !.pc = "awaitPlay", !.lineupItem = item,
                                                  !.throttled = item # rec.lineupItem,
                                                  !.failedBefore = attempts[rec.session]]]
           /\ attempts' = AttemptsAfter(rec.session, rec.lineupItem)
           /\ pl' = [pl EXCEPT ![r] = play(NewPlayer(item))]
    /\ UNCHANGED <<lineups, cache, nreq>>

\* AwaitPlay that attaches no listener to the emitter
AwaitPlayWiresNothing(r) ==
    /\ rq[r].pc = "awaitPlay"
    /\ pl[r].outcome # "pending"
    /\ LET rec == rq[r] IN
       IF pl[r].outcome = "threw"
       THEN /\ rq' = [rq EXCEPT ![r] = ReturnError(stopRq(rec), 500, "playThrew")]
            /\ pl' = [pl EXCEPT ![r] = stopPl(rec, pl[r])]
       ELSE /\ rq' = [rq EXCEPT ![r] = [rec EXCEPT !.pc = "done", !.result = "success"]]
            /\ pl' = pl
    /\ UNCHANGED <<lineups, cache, attempts, nreq>>

\* lines 333-363: play() settled; wire the emitter and return
AwaitPlay(r) ==
    /\ rq[r].pc = "awaitPlay"
    /\ pl[r].outcome # "pending"
    /\ LET rec == rq[r] IN
       IF pl[r].outcome = "threw"
       THEN /\ rq' = [rq EXCEPT ![r] = ReturnError(stopRq(rec), 500, "playThrew")]
            /\ pl' = [pl EXCEPT ![r] = stopPl(rec, pl[r])]
       ELSE /\ rq' = [rq EXCEPT ![r] = [rec EXCEPT !.pc = "done", !.result = "success",
                                                   !.handlers = pl[r].outcome = "emitter"]]
            /\ pl' = pl
    /\ UNCHANGED <<lineups, cache, attempts, nreq>>

\* the caller of startStream calls stop() of a success result
Stop(r) ==
    /\ rq[r].pc = "done"
    /\ rq[r].result = "success"
    /\ rq[r].stopCalls < MaxStops
    /\ rq' = [rq EXCEPT ![r] = [stopRq(rq[r]) EXCEPT !.stopCalls = @ + 1]]
    /\ pl' = [pl EXCEPT ![r] = stopPl(rq[r], pl[r])]
    /\ UNCHANGED <<lineups, cache, attempts, nreq>>

(***************************************************************************)
(* The events of a spawned process and their listeners.                    *)
(***************************************************************************)
\* emitter.emit(ev) of an event of process k
emit(p, k, ev) == [p EXCEPT !.emitted = @ \cup {<<k, ev>>}]

\* streamEnds for pipes that all end the sink, end: false or not
streamEndsClosesSink(p, k, ev) ==
    IF ev = "end" /\ p.procs[k].piped
    THEN [p EXCEPT !.pipeEnded = TRUE]
    ELSE p

\* the stream of process k ends: a pipe without end: false ends the sink
streamEnds(p, k, ev) ==
    IF ev = "end" /\ p.procs[k].piped /\ ~p.procs[k].keepOpen
    THEN [p EXCEPT !.pipeEnded = TRUE]
    ELSE p

\* onError that leaves the listeners of the failed process in place
onErrorKeepsListeners(p, k) ==
    LET unpiped == [p EXCEPT !.procs[k].piped = FALSE]
        base == IF p.detailsDuration = NoVal THEN 30000 \div 1000 ELSE p.detailsDuration
    IN  emit([unpiped EXCEPT !.ffmpeg = 2,
                             !.procs[2] = [NoProc EXCEPT !.role = "slate", !.spawned = TRUE,
                                                         !.piped = TRUE, !.keepOpen = FALSE,
                                                         !.lis = "slate",
                                                         !.duration = Min(base, ErrorDuration)],
                             !.lateSpawn = @ \/ p.cleanUps > 0],
             k, "error")

\* onError that schedules a status task for the substitute as well
onErrorSchedulesAgain(p, k) ==
    LET unpiped == [p EXCEPT !.procs[k].piped = FALSE]
        removed == IF p.ffmpeg # 0
                   THEN [unpiped EXCEPT !.procs[p.ffmpeg].lis = "none"]
                   ELSE unpiped
        base == IF p.detailsDuration = NoVal THEN 30000 \div 1000 ELSE p.detailsDuration
    IN  emit([removed EXCEPT !.ffmpeg = 2,
                             !.procs[2] = [NoProc EXCEPT !.role = "slate", !.spawned = TRUE,
                                                         !.piped = TRUE, !.keepOpen = FALSE,
                                                         !.lis = "slate",
                                                         !.duration = Min(base, ErrorDuration)],
                             !.scheduled = IF p.task THEN @ + 1 ELSE @,
                             !.lateSpawn = @ \/ p.cleanUps > 0],
             k, "error")

\* onError that pipes the substitute and leaves the failed process piped
onErrorLeavesPiped(p, k) ==
    LET removed == IF p.ffmpeg # 0
                   THEN [p EXCEPT !.procs[p.ffmpeg].lis = "none"]
                   ELSE p
        base == IF p.detailsDuration = NoVal THEN 30000 \div 1000 ELSE p.detailsDuration
    IN  emit([removed EXCEPT !.ffmpeg = 2,
                             !.procs[2] = [NoProc EXCEPT !.role = "slate", !.spawned = TRUE,
                                                         !.piped = TRUE, !.keepOpen = FALSE,
                                                         !.lis = "slate",
                                                         !.duration = Min(base, ErrorDuration)],
                             !.lateSpawn = @ \/ p.cleanUps > 0],
             k, "error")

\* lines 156-188: the 'error' listener of the transcoder
onError(p, k) ==
    LET unpiped == [p EXCEPT !.procs[k].piped = FALSE]
        removed == IF p.ffmpeg # 0
                   THEN [unpiped EXCEPT !.procs[p.ffmpeg].lis = "none"]
                   ELSE unpiped
        base == IF p.detailsDuration = NoVal THEN 30000 \div 1000 ELSE p.detailsDuration
    IN  emit([removed EXCEPT !.ffmpeg = 2,
                             !.procs[2] = [NoProc EXCEPT !.role = "slate", !.spawned = TRUE,
                                                         !.piped = TRUE, !.keepOpen = FALSE,
                                                         !.lis = "slate",
                                                         !.duration = Min(base, ErrorDuration)],
                             !.lateSpawn = @ \/ p.cleanUps > 0],
             k, "error")

\* what the listeners on process k do with ev (lines 147-188)
listeners(p, k, ev) ==
    CASE p.procs[k].lis = "none" -> p
      [] p.procs[k].lis = "main" /\ ev = "error" -> onError(p, k)
      [] OTHER -> emit(p, k, ev)

\* startStream's listeners on the emitter are set in the turn play() settles in
Wired(r) == ~(rq[r].pc = "awaitPlay" /\ pl[r].outcome # "pending")

FfmpegEvent(r, k, ev) ==
    /\ pl[r].procs[k].spawned
    /\ ev \notin pl[r].procs[k].raised
    /\ "close" \notin pl[r].procs[k].raised
    /\ Wired(r)
    /\ LET p == streamEnds([pl[r] EXCEPT !.procs[k].raised = @ \cup {ev}], k, ev)
           heard == p.procs[k].lis # "none"
           q == listeners(p, k, ev)
           stopping == heard /\ ev = "end" /\ rq[r].handlers
       IN  /\ pl' = [pl EXCEPT ![r] = IF stopping THEN stopPl(rq[r], q) ELSE q]
           /\ rq' = [rq EXCEPT ![r] = IF stopping THEN stopRq(rq[r]) ELSE rq[r]]
    /\ UNCHANGED <<lineups, cache, attempts, nreq>>

(***************************************************************************)
(* cleanUp() called on the player directly, at any point of play().        *)
(***************************************************************************)
CleanUpCall(r) ==
    /\ pl[r].variant = "content"
    /\ pl[r].cleanUps < MaxCleanUps
    /\ pl' = [pl EXCEPT ![r] = cleanUp(pl[r])]
    /\ UNCHANGED <<lineups, cache, attempts, nreq, rq>>

\* the transcoder feeds ten more seconds of the item into the sink; it has not
\* ended or failed and is short of the end of what it was asked to play
Played(r) ==
    /\ pl[r].procs[1].role = "transcoder"
    /\ pl[r].procs[1].spawned
    /\ pl[r].procs[1].piped
    /\ pl[r].procs[1].kills = 0
    /\ pl[r].procs[1].raised = {}
    /\ pl[r].played < MaxPlayed
    /\ pl[r].played + 10 < (IF pl[r].procs[1].duration # NoVal
                            THEN pl[r].procs[1].duration
                            ELSE pl[r].item.duration - StartOf(pl[r].item))
    /\ pl' = [pl EXCEPT ![r].played = @ + 10]
    /\ UNCHANGED <<lineups, cache, attempts, nreq, rq>>

\* play() called on a player that was constructed with a content-backed item
PlayCall(r) ==
    /\ pl[r].pc = "new"
    /\ pl' = [pl EXCEPT ![r] = play(pl[r])]
    /\ UNCHANGED <<lineups, cache, attempts, nreq, rq>>

(***************************************************************************)
(* Spec: startStream requests made one after another over every            *)
(* configuration of the channel store, up to the return of each request.   *)
(***************************************************************************)
Init ==
    /\ lineups \in [Channels -> UNION {LineupsOf(c) : c \in Channels}]
    /\ \A c \in Channels : lineups[c] \in LineupsOf(c)
    /\ cache = [c \in Channels |-> NoEntry]
    /\ attempts = [s \in Sessions |-> 0]
    /\ nreq = 0
    /\ rq = [r \in Reqs |-> IdleRq]
    /\ pl = [r \in Reqs |-> NoPlayer]

Steps(r) ==
    \/ WalkHead(r)
    \/ WalkLoad(r)
    \/ Resolved(r)
    \/ SkipClear(r)
    \/ SkipRecurse(r)
    \/ Unwind(r)
    \/ RecordFinal(r)
    \/ Play(r)
    \/ PlayFindServer(r)
    \/ PlayGetStream(r)
    \/ AwaitPlay(r)

Next ==
    \/ \E r \in Solo : StartStream(r)
    \/ \E r \in Solo : Steps(r)
    \/ \E s \in Sessions : ThrottleExpire(s)

Spec == Init /\ [][Next]_vars

(***************************************************************************)
(* SpecStream: one request, with the life of the stream after startStream  *)
(* returned: the events of the processes and the caller's stop().  The     *)
(* channel store is one of two: in the first A is offline, then redirects  *)
(* to B, which is offline, and C airs content; in the second A and B       *)
(* redirect to each other.                                                 *)
(***************************************************************************)
Store(a, b, c) == [ch \in Channels |-> CASE ch = "A" -> a [] ch = "B" -> b [] OTHER -> c]

StreamStores ==
    {Store(<<Offline, Redirect("B")>>, <<Offline>>, <<Content>>),
     Store(<<Redirect("B")>>, <<Redirect("A")>>, <<Content>>)}

InitStream ==
    /\ lineups \in StreamStores
    /\ cache = [c \in Channels |-> NoEntry]
    /\ attempts = [s \in Sessions |-> 0]
    /\ nreq = 0
    /\ rq = [r \in Reqs |-> IdleRq]
    /\ pl = [r \in Reqs |-> NoPlayer]

NextStream ==
    \/ \E r \in Solo : nreq = 0 /\ StartStream(r)
    \/ \E r \in Solo : Steps(r)
    \/ \E r \in Solo : Stop(r)
    \/ \E r \in Solo, k \in {1, 2}, ev \in Events : FfmpegEvent(r, k, ev)

SpecStream == InitStream /\ [][NextStream]_vars

(***************************************************************************)
(* SpecPlayer: one JellyfinPlayer, its play(), the events of its           *)
(* processes, and cleanUp() called at any point.                           *)
(***************************************************************************)
PlayerItems ==
    {[type |-> "program", start |-> st, duration |-> 60, streamDuration |-> sd,
      beginningOffset |-> NoVal, error |-> ""] :
        st \in {NoVal, 0, 20}, sd \in {NoVal, 25, 30, 40}}

InitPlayer ==
    /\ lineups \in StreamStores
    /\ cache = [c \in Channels |-> NoEntry]
    /\ attempts = [s \in Sessions |-> 0]
    /\ nreq = 0
    /\ rq = [r \in Reqs |-> IdleRq]
    /\ \E item \in PlayerItems :
         pl = [r \in Reqs |-> IF r \in Solo THEN NewPlayer(item) ELSE NoPlayer]

NextPlayer ==
    \/ \E r \in Solo : PlayCall(r)
    \/ \E r \in Solo : PlayFindServer(r)
    \/ \E r \in Solo : PlayGetStream(r)
    \/ \E r \in Solo : CleanUpCall(r)
    \/ \E r \in Solo : Played(r)
    \/ \E r \in Solo, k \in {1, 2}, ev \in Events : FfmpegEvent(r, k, ev)

SpecPlayer == InitPlayer /\ [][NextPlayer]_vars

(***************************************************************************)
(* SpecConc: two startStream invocations for the same timestamp.  Each     *)
(* first runs alone on an empty Playback Cache, up to the point where its  *)
(* item is final (line 289) or it returned an error, and what it arrived   *)
(* at is kept; then both run on one Playback Cache, interleaved at every   *)
(* await.  nreq counts the phases: 0-1 the first alone, 2-3 the second     *)
(* alone, 4 both together.                                                 *)
(***************************************************************************)
ConcStores ==
    {Store(<<Offline, Redirect("B")>>, <<Offline>>, <<Content>>),
     Store(<<Redirect("B")>>, <<Redirect("A")>>, <<Redirect("A")>>),
     Store(<<Redirect("B")>>, <<Redirect("C")>>, <<Content>>),
     Store(<<Offline, Redirect("B")>>, <<Redirect("C")>>, <<OfflineLong>>),
     Store(<<Redirect("B")>>, <<Offline, Redirect("C")>>, <<Offline, Content>>)}

InitConc ==
    /\ lineups \in ConcStores
    /\ cache = [c \in Channels |-> NoEntry]
    /\ attempts = [s \in Sessions |-> 0]
    /\ nreq = 0
    /\ rq = [r \in Reqs |-> IdleRq]
    /\ pl = [r \in Reqs |-> NoPlayer]

\* the steps of startStream up to line 289
WalkSteps(r) ==
    \/ WalkHead(r)
    \/ WalkLoad(r)
    \/ Resolved(r)
    \/ SkipClear(r)
    \/ SkipRecurse(r)
    \/ Unwind(r)
    \/ RecordFinal(r)

AloneStart(r) ==
    /\ nreq = 2 * (r - 1)
    /\ \E ch \in Channels, t \in Times, skip \in BOOLEAN :
         /\ r > 1 => t = rq[1].alone.t
         /\ rq' = [rq EXCEPT ![r] =
                     Enter([IdleRq EXCEPT !.alone = [NoAlone EXCEPT !.channel = ch, !.t = t,
                                                                    !.allowSkip = skip]],
                           ch, 0, t, skip, TRUE)]
    /\ nreq' = nreq + 1
    /\ UNCHANGED <<lineups, cache, attempts, pl>>

AloneEnd(r) ==
    /\ nreq = 2 * (r - 1) + 1
    /\ rq[r].pc \in {"play", "done"}
    /\ rq' = [rq EXCEPT ![r] =
                [IdleRq EXCEPT !.alone = [rq[r].alone EXCEPT !.at = rq[r].t,
                                                             !.item = rq[r].lineupItem,
                                                             !.error = rq[r].error]]]
    /\ cache' = [c \in Channels |-> NoEntry]
    /\ nreq' = nreq + 1
    /\ UNCHANGED <<lineups, attempts, pl>>

TogetherStart(r) ==
    /\ nreq = 2 * Cardinality(Reqs)
    /\ rq[r].pc = "idle"
    /\ rq' = [rq EXCEPT ![r] =
                Enter(rq[r], rq[r].alone.channel, 0, rq[r].alone.t, rq[r].alone.allowSkip,
                      TRUE)]
    /\ UNCHANGED <<lineups, cache, attempts, nreq, pl>>

NextConc ==
    \/ \E r \in Reqs : AloneStart(r)
    \/ \E r \in Reqs : AloneEnd(r)
    \/ \E r \in Reqs : TogetherStart(r)
    \/ \E r \in Reqs : WalkSteps(r)

SpecConc == InitConc /\ [][NextConc]_vars

(***************************************************************************)
(* SpecSeq: the two invocations of SpecConc, each first alone on an empty  *)
(* Playback Cache, then one after the other on one Playback Cache: the     *)
(* later one starts when the item of the earlier one is final (line 289)   *)
(* or the earlier one returned an error.                                   *)
(***************************************************************************)
LaterStart(r) ==
    /\ \A q \in Reqs : q < r => rq[q].pc \in {"play", "done"}
    /\ TogetherStart(r)

NextSeq ==
    \/ \E r \in Reqs : AloneStart(r)
    \/ \E r \in Reqs : AloneEnd(r)
    \/ \E r \in Reqs : LaterStart(r)
    \/ \E r \in Reqs : WalkSteps(r)

SpecSeq == InitConc /\ [][NextSeq]_vars

(***************************************************************************)
(* The claims.                                                             *)
(***************************************************************************)
Offset(item) == IF item.beginningOffset = NoVal THEN 0 ELSE item.beginningOffset

\* C1: a redirect walk that comes back to a channel id it already visited ends
\* after a bounded number of iterations (at most two rounds over the channels)
\* and the item handed to the player is of kind error.
C1_CycleEndsInError ==
    \A r \in Reqs :
        /\ rq[r].loads <= 2 * Cardinality(Channels)
        /\ (rq[r].cycle /\ rq[r].pc \in {"awaitPlay", "done"})
              => (pl[r].variant # "none" /\ pl[r].item.type = "error")

\* a walk over a cycle of two or more channels has ended and its error item plays
C1_Witness ==
    \E r \in Reqs :
        /\ rq[r].cycle
        /\ rq[r].pc = "done"
        /\ Cardinality(Elems(rq[r].redirectChannels)) >= 2
        /\ pl[r].item.type = "error"

\* C2: after the bounds of a chain of k >= 1 redirect hops were applied, the
\* item's streamDuration is at most (slotDuration - elapsed) + beginningOffset of
\* every hop, and at most the stream duration the item had of its own.
C2_DurationWithinEveryBound ==
    \A r \in Reqs :
        (rq[r].pc = "play" /\ Len(rq[r].redirectChannels) >= 1) =>
            LET item == rq[r].lineupItem IN
            /\ item.streamDuration # NoVal
            /\ \A j \in 1..Len(rq[r].upperBounds) :
                  item.streamDuration <= rq[r].upperBounds[j] + Offset(item)
            /\ rq[r].ownDuration # NoVal => item.streamDuration <= rq[r].ownDuration

\* two hops with different bounds end at content that the inner hop cuts short
C2_Witness ==
    \E r \in Reqs :
        /\ rq[r].pc = "play"
        /\ Len(rq[r].redirectChannels) = 2
        /\ rq[r].upperBounds[2] < rq[r].upperBounds[1]
        /\ rq[r].lineupItem.type = "program"
        /\ rq[r].lineupItem.streamDuration < rq[r].ownDuration

\* C3: when cleanUp() returns, the subprocess the player held has been sent a
\* kill, the periodic status task, if one was scheduled, has been stopped, and
\* the player is marked as killed and holds no subprocess; whether the process
\* is running, has exited, or is the error slate that replaced a failed one.
C3_CleanUpKillsAndStops ==
    [][\A r \in Reqs :
          pl'[r].cleanUps = pl[r].cleanUps + 1 =>
              /\ pl[r].ffmpeg # 0 => pl'[r].procs[pl[r].ffmpeg].kills >= 1
              /\ pl[r].task => pl'[r].taskStops >= 1
              /\ pl'[r].ffmpeg = 0
              /\ pl'[r].killed]_vars

\* cleanUp() killed the error slate that had replaced a failed transcoder, on a
\* player with a scheduled status task
C3_Witness ==
    \E r \in Reqs :
        /\ pl[r].cleanUps >= 1
        /\ pl[r].procs[2].spawned
        /\ pl[r].procs[2].kills >= 1
        /\ pl[r].task
        /\ pl[r].taskStops >= 1

\* C4: once cleanUp() has returned, no transcoder or error-slate process is
\* spawned or piped into the sink, and the player holds no spawned process that
\* was never sent a kill.
C4_NothingSpawnedAfterCleanUp ==
    \A r \in Reqs :
        pl[r].cleanUps > 0 =>
            /\ ~pl[r].lateSpawn
            /\ (pl[r].ffmpeg # 0 /\ pl[r].procs[pl[r].ffmpeg].spawned)
                  => pl[r].procs[pl[r].ffmpeg].kills >= 1

\* C5: however often cleanUp() is called, each subprocess is sent at most one
\* kill and stop() of the status task is called at most once.
C5_AtMostOneKillAndOneStop ==
    \A r \in Reqs :
        /\ pl[r].taskStops <= 1
        /\ \A k \in {1, 2} : pl[r].procs[k].kills <= 1

\* stop() was asked for: by the caller, by the 'end' listener, or by the catch
StopAsked(r) ==
    \/ rq[r].stopCalls > 0
    \/ rq[r].error = "playThrew"
    \/ rq[r].handlers /\ \E k \in {1, 2} : <<k, "end">> \in pl[r].emitted

\* C6: however many times stop() is called, by the caller and by the 'end'
\* listener in any order, player.cleanUp() has run exactly once and the sink
\* was ended exactly once; neither has happened before the first call.
C6_StopRunsOnce ==
    \A r \in Reqs :
        LET n == IF StopAsked(r) THEN 1 ELSE 0
        IN  /\ pl[r].cleanUps = n
            /\ rq[r].cleanUps = n
            /\ rq[r].sinkEnds = n

\* the caller stopped twice and the 'end' listener ran as well
C6_Witness ==
    \E r \in Reqs :
        /\ rq[r].stopCalls = 2
        /\ rq[r].handlers
        /\ \E k \in {1, 2} : <<k, "end">> \in pl[r].emitted
        /\ pl[r].cleanUps = 1

\* the transcoder failed while the player held it (no cleanUp() had killed it)
Substituted(p) ==
    /\ p.procs[1].role = "transcoder"
    /\ "error" \in p.procs[1].raised
    /\ p.procs[1].kills = 0

C7_AfterSubstitution ==
    \A r \in Reqs :
        Substituted(pl[r]) =>
            /\ ~pl[r].procs[1].piped
            /\ pl[r].procs[1].lis = "none"
            /\ pl[r].procs[2].role = "slate"
            /\ pl[r].procs[2].spawned
            /\ pl[r].procs[2].piped
            /\ <<1, "error">> \in pl[r].emitted
            /\ \A ev \in pl[r].procs[2].raised : <<2, ev>> \in pl[r].emitted

C7_FailedProcessIsSilent ==
    \A r \in Reqs :
        Substituted(pl[r]) =>
            {e \in pl'[r].emitted : e[1] = 1} = {e \in pl[r].emitted : e[1] = 1}

C8_ThrottledAfterNFailures ==
    \A r \in Reqs :
        (/\ rq[r].pc \in {"awaitPlay", "done"}
         /\ pl[r].variant # "none"
         /\ rq[r].failedBefore >= ThrottleThreshold) =>
            /\ pl[r].item.type = "error"
            /\ pl[r].item.error = "throttle"
            /\ pl[r].item.duration = ErrorDuration
            /\ pl[r].item.start = 0
            /\ pl[r].variant = "slate"
            /\ pl[r].pc \notin {"findServer", "getStream"}
            /\ \A k \in {1, 2} : pl[r].procs[k].role # "transcoder"
            /\ rq[r].pc = "done" => rq[r].result = "success"

\* a request whose content resolved (the cache holds it) was throttled
C8_Witness ==
    \E r \in Reqs :
        /\ rq[r].pc = "done"
        /\ rq[r].result = "success"
        /\ rq[r].throttled
        /\ rq[r].failedBefore >= ThrottleThreshold
        /\ cache[rq[r].channel].t = rq[r].t
        /\ cache[rq[r].channel].item.type = "program"

\* C9: a request-level error is returned only when the request names no
\* channel (400), the channel is not found (404), the transcoder executable is
\* missing (500), no program resolves (500) or the initial play() threw (500);
\* a redirect cycle, a redirect to a missing channel and a throttled session
\* each return success with an error item being streamed.
C9_RequestErrorsAreStructural ==
    \A r \in Reqs :
        /\ rq[r].result = "error" =>
              \/ rq[r].error = "noChannel" /\ rq[r].httpStatus = 400 /\ rq[r].channel = Undef
              \/ rq[r].error = "notFound" /\ rq[r].httpStatus = 404
                    /\ rq[r].channel \notin Channels
              \/ rq[r].error = "ffmpegMissing" /\ rq[r].httpStatus = 500
                    /\ pl[r].variant = "none"
              \/ rq[r].error = "noProgram" /\ rq[r].httpStatus = 500
                    /\ rq[r].currentProgram = NoProgram /\ pl[r].variant = "none"
              \/ rq[r].error = "playThrew" /\ rq[r].httpStatus = 500
                    /\ pl[r].outcome = "threw"
        /\ (rq[r].pc = "done" /\ (rq[r].cycle \/ rq[r].missing \/ rq[r].throttled)) =>
              /\ rq[r].result = "success"
              /\ pl[r].item.type = "error"
              /\ \E k \in {1, 2} : pl[r].procs[k].spawned /\ pl[r].procs[k].piped

\* a redirect to a missing channel ended in a successful request
C9_Witness ==
    \E r \in Reqs :
        /\ rq[r].pc = "done"
        /\ rq[r].missing
        /\ rq[r].result = "success"
        /\ pl[r].item.error = "missing"

\* C10: a successful result of startStream has a sink that a process feeds:
\* when the negotiation for a content item fails, an error slate is spawned and
\* piped into the sink.
C10_SuccessIsFed ==
    \A r \in Reqs :
        rq[r].result = "success" =>
            \E k \in {1, 2} : pl[r].procs[k].spawned /\ pl[r].procs[k].piped

\* the requested channel's lineup is one offline slot
SoleOfflineSlot(c) ==
    /\ c \in Channels
    /\ Len(lineups[c]) = 1
    /\ lineups[c][1].type = "offline"

\* C11: a request for a channel whose lineup is a single offline slot resolves,
\* at every timestamp and without skipping ahead, to an offline item whose
\* duration is at least one day, whatever the slot's configured duration; that
\* item is the one handed to the player unless the session is throttled.
C11_SoleOfflineSlotLastsADay ==
    \A r \in Reqs :
        SoleOfflineSlot(rq[r].channel) =>
            /\ rq[r].skips = 0
            /\ rq[r].error # "noProgram"
            /\ rq[r].pc = "play" =>
                  /\ rq[r].lineupItem.type = "offline"
                  /\ rq[r].lineupItem.duration >= 24 * 60 * 60
            /\ (rq[r].pc \in {"awaitPlay", "done"} /\ pl[r].variant # "none"
                   /\ ~rq[r].throttled) =>
                  /\ pl[r].item.type = "offline"
                  /\ pl[r].item.duration >= 24 * 60 * 60

\* the slot of 40 s had 5 s left, within the slack, and the caller allowed skipping
C11_Witness ==
    \E r \in Reqs :
        /\ rq[r].pc = "done"
        /\ rq[r].result = "success"
        /\ lineups[rq[r].channel] = <<Offline>>
        /\ rq[r].allowSkip
        /\ rq[r].t = 35
        /\ pl[r].item.type = "offline"
        /\ pl[r].item.duration >= 24 * 60 * 60

C12_AtMostOneSkip == \A r \in Reqs : rq[r].skips <= 1

C12_SkipAdvances ==
    \A r \in Reqs : rq'[r].skips = rq[r].skips + 1 => rq'[r].t > rq[r].t

\* C12: every skip-ahead re-invocation of startStream queries a timestamp
\* strictly greater than the one of the invocation that made it, and a request
\* re-invokes itself at most once.
C12_SkipAheadIsBounded == []C12_AtMostOneSkip /\ [][C12_SkipAdvances]_vars

\* after one skip the program is again an offline slot about to end, and it plays
C12_Witness ==
    \E r \in Reqs :
        /\ rq[r].skips = 1
        /\ rq[r].pc = "done"
        /\ rq[r].result = "success"
        /\ pl[r].item.type = "offline"
        /\ pl[r].item.duration <= SLACK + 1

C13_AfterMissingTarget ==
    \A r \in Reqs :
        rq[r].missing =>
            /\ rq[r].result # "error"
            /\ rq[r].pc \in {"walk", "resolved"} =>
                  /\ rq[r].currentProgram.program.type = "error"
                  /\ rq[r].currentProgram.program.duration = 60000 \div 1000
                  /\ rq[r].currentProgram.timeElapsed = 0
            /\ rq[r].pc = "play" =>
                  /\ rq[r].lineupItem.type = "error"
                  /\ rq[r].lineupItem.streamDuration # NoVal
                  /\ \A j \in 1..Len(rq[r].upperBounds) :
                        rq[r].lineupItem.streamDuration <= rq[r].upperBounds[j]
            /\ rq[r].pc = "done" =>
                  /\ rq[r].result = "success"
                  /\ pl[r].item.type = "error"
                  /\ pl[r].procs[1].spawned /\ pl[r].procs[1].piped
                  /\ ~rq[r].throttled =>
                        \A j \in 1..Len(rq[r].upperBounds) :
                            /\ pl[r].item.streamDuration # NoVal
                            /\ pl[r].item.streamDuration <= rq[r].upperBounds[j]

C13_WalkIsOver ==
    \A r \in Reqs :
        (rq[r].missing /\ rq'[r].missing) =>
            /\ rq'[r].loads = rq[r].loads
            /\ rq'[r].resolutions = rq[r].resolutions
            /\ rq'[r].redirectChannels = rq[r].redirectChannels

\* C13: when the target of a redirect cannot be loaded, the current program
\* becomes an error program of 60000 ms with elapsed time 0 and the walk is
\* over (no further hop, load or resolution); the request does not fail: it
\* returns success streaming an error item whose streamDuration is within the
\* bound of every redirect hop walked (unless the session is throttled).
C13_MissingTargetEndsWalk == []C13_AfterMissingTarget /\ [][C13_WalkIsOver]_vars

\* two hops, the second to a missing channel; the tighter hop caps the error item
C13_Witness ==
    \E r \in Reqs :
        /\ rq[r].missing
        /\ rq[r].pc = "done"
        /\ rq[r].result = "success"
        /\ Len(rq[r].redirectChannels) = 2
        /\ rq[r].upperBounds[1] < rq[r].upperBounds[2]
        /\ pl[r].item.type = "error"
        /\ pl[r].item.streamDuration = rq[r].upperBounds[1]

\* C14: when a request for channel C at timestamp t met a redirect cycle, then
\* from the moment its item is final, and when it completes, the Playback Cache
\* returns for (C, t) an item of kind error, and the request does not fail.
C14_CycleRecordedForOrigin ==
    \A r \in Reqs :
        (rq[r].cycle /\ rq[r].pc \in {"play", "awaitPlay", "done"}) =>
            /\ rq[r].result # "error"
            /\ getCurrentLineupItem(rq[r].channel, rq[r].t).type = "error"

\* the cycle A -> B -> A was met from C, which is not part of it
C14_Witness ==
    \E r \in Reqs :
        /\ rq[r].cycle
        /\ rq[r].pc = "done"
        /\ rq[r].channel = "C"
        /\ "C" \notin Elems(Tail(rq[r].redirectChannels))
        /\ cache["C"].t = rq[r].t
        /\ cache["C"].item.type = "error"

MinOf(S) == CHOOSE x \in S : \A y \in S : x <= y

\* the final item, cut to its own stream duration and to the bounds of the hops
\* from the i-th on
CutFrom(rec, i) ==
    [rec.lineupItem EXCEPT !.streamDuration =
        MinOf((IF rec.ownDuration = NoVal THEN {} ELSE {rec.ownDuration})
              \cup {rec.upperBounds[j] + Offset(rec.lineupItem) :
                       j \in i..Len(rec.upperBounds)})]

\* the entries recorded for the redirecting channels of a chain
C15_EntriesAlongChain ==
    \A r \in Reqs :
        (rq[r].pc = "play" /\ ~rq[r].cycle) =>
            \A i \in 1..Len(rq[r].redirectChannels) :
                cache[rq[r].redirectChannels[i]] = [t |-> rq[r].t, item |-> CutFrom(rq[r], i)]

\* a request made directly to a redirecting channel for which an earlier request
\* left an entry at the same timestamp arrives at the item of that entry (it
\* records its own item over it when the unwinding reaches the first hop)
C15_DirectRequestAgrees ==
    \A r \in Reqs :
        (/\ rq[r].pc = "unwind"
         /\ rq[r].i = 1
         /\ ~rq[r].cycle
         /\ cache[rq[r].channel].t = rq[r].t
         /\ cache[rq[r].channel].item.error # "cycle") =>
            cache'[rq[r].channel].item = cache[rq[r].channel].item

\* C15: when the item of a request that went through the redirecting channels
\* c0 .. c(k-1) is final, the Playback Cache holds for every ci the entry
\* (ci, t) with the final item cut to min(its own stream duration, bound_j +
\* beginningOffset for every j >= i), and that entry is the item a request made
\* directly to ci at t produces.
C15_ChainEntriesAreTheDirectItem ==
    []C15_EntriesAlongChain /\ [][C15_DirectRequestAgrees]_vars

\* an invocation whose transcoder executable was found at every check
Ran(r) == rq[r].error # "ffmpegMissing" /\ rq[r].alone.error # "ffmpegMissing"

\* C16: of two requests for the same timestamp that run concurrently, on
\* channels whose redirect chains overlap, each arrives at the Playable Item
\* (and the timestamp and the error, if any) it arrives at when it runs alone,
\* in every interleaving of their Playback Cache reads, writes and clears.
C16_ResultAsWhenAlone ==
    \A r \in Reqs :
        (nreq = 2 * Cardinality(Reqs) /\ rq[r].pc \in {"play", "done"} /\ Ran(r)) =>
            /\ rq[r].lineupItem = rq[r].alone.item
            /\ rq[r].t = rq[r].alone.at
            /\ rq[r].error = rq[r].alone.error

\* C17: when the source registry has no source for the item, play() throws
\* before a transcoder is created: the player holds no transcoder object, no
\* process was spawned or piped into the sink and no status task was
\* scheduled; startStream then returns a request-level error (500) with
\* stop() run: cleanUp() called once and the sink ended once.
C17_NoSourceFailsFast ==
    \A r \in Reqs :
        pl[r].server = "missing" =>
            /\ pl[r].outcome = "threw"
            /\ pl[r].ffmpeg = 0
            /\ \A k \in {1, 2} :
                  /\ pl[r].procs[k].role = "none"
                  /\ ~pl[r].procs[k].spawned
                  /\ ~pl[r].procs[k].piped
            /\ pl[r].scheduled = 0
            /\ ~pl[r].task
            /\ rq[r].pc = "done" =>
                  /\ rq[r].result = "error"
                  /\ rq[r].httpStatus = 500
                  /\ rq[r].stopped
                  /\ pl[r].cleanUps = 1
                  /\ rq[r].sinkEnds = 1

\* the request of a content item whose source was not found has returned
C17_Witness ==
    \E r \in Reqs :
        /\ pl[r].server = "missing"
        /\ pl[r].item.type = "program"
        /\ rq[r].pc = "done"
        /\ rq[r].result = "error"
        /\ pl[r].killed

C18_TaskScheduledOnce ==
    \A r \in Reqs :
        /\ pl[r].scheduled <= 1
        /\ pl[r].scheduled = 1 =>
              /\ pl[r].first
              /\ pl[r].updatePlayStatus = "on"
              /\ pl[r].procs[1].role = "transcoder"
              /\ pl[r].procs[1].spawned
        /\ pl[r].updatePlayStatus = "on" => pl[r].scheduled = 1
        /\ pl[r].updatePlayStatus = "off" => pl[r].scheduled = 0
        /\ pl[r].outcome \in {"undefined", "threw"} => pl[r].scheduled = 0

C18_ScheduledWithTheSpawn ==
    \A r \in Reqs :
        pl'[r].scheduled # pl[r].scheduled =>
            /\ ~pl[r].procs[1].spawned
            /\ pl'[r].procs[1].spawned
            /\ ~pl'[r].procs[2].spawned

\* C18: with status reporting enabled play() schedules exactly one status task
\* per player, seeded with first = true, in the run that spawned the
\* transcoder; with reporting disabled, or when play() returned or threw
\* before the spawn, none is scheduled; error substitution schedules no other.
C18_OneStatusTask == []C18_TaskScheduledOnce /\ [][C18_ScheduledWithTheSpawn]_vars

\* the transcoder failed and was replaced, and the one task is still the only one
C18_Witness ==
    \E r \in Reqs :
        /\ pl[r].scheduled = 1
        /\ pl[r].first
        /\ pl[r].procs[2].spawned
        /\ "error" \in pl[r].procs[1].raised

\* the number of redirect hops from channel c at timestamp t to a program that
\* is no redirect or to a missing channel; NoVal when the hops run in a cycle
RECURSIVE Hops(_, _, _)
Hops(c, t, fuel) ==
    LET cp == getCurrentProgramAndTimeElapsed(t, lineups[c]) IN
    IF ~IsRedirect(cp) THEN 0
    ELSE IF cp.program.channel \notin Channels THEN 1
    ELSE IF fuel = 0 THEN NoVal
    ELSE LET rest == Hops(cp.program.channel, t, fuel - 1)
         IN  IF rest = NoVal THEN NoVal ELSE rest + 1

\* C19: for a request whose redirect chain has k hops and no cycle, the walk
\* loads at most k channels and resolves at most k + 1 lineups.
C19_WalkWithinChainLength ==
    \A r \in Reqs :
        (rq[r].pc # "idle" /\ rq[r].channel \in Channels) =>
            LET k == Hops(rq[r].channel, rq[r].t, Cardinality(Channels))
            IN  k # NoVal =>
                   /\ rq[r].loads <= k
                   /\ rq[r].resolutions <= k + 1

\* a chain of two hops walked on an empty Playback Cache: 2 loads, 3 resolutions
C19_Witness ==
    \E r \in Reqs :
        /\ rq[r].pc = "play"
        /\ rq[r].channel \in Channels
        /\ Hops(rq[r].channel, rq[r].t, Cardinality(Channels)) = 2
        /\ ~rq[r].missing
        /\ rq[r].loads = 2
        /\ rq[r].resolutions = 3

\* C20: once the walk has found the target of a redirect in the visited list,
\* it loads no further channel and resolves no further lineup.
C20_NothingAfterDetection ==
    [][\A r \in Reqs :
          (rq[r].cycle /\ rq'[r].cycle) =>
              /\ rq'[r].loads = rq[r].loads
              /\ rq'[r].resolutions = rq[r].resolutions]_vars

\* the walk of an invocation ended at an entry of the Playback Cache
CacheHit(rec) == rec.loads >= 1 /\ rec.resolutions = rec.loads /\ ~rec.missing

\* C21: the Playable Item of a request for (channel, t) whose walk was cut
\* short by the Playback Cache entry an earlier request recorded for an
\* intermediate channel at t is the item the request arrives at when its walk
\* resolves every hop itself.
C21_CacheHitAsSelfResolved ==
    \A r \in Reqs :
        (/\ nreq = 2 * Cardinality(Reqs)
         /\ rq[r].pc = "play"
         /\ rq[r].skips = 0
         /\ CacheHit(rq[r])
         /\ Ran(r)) =>
            rq[r].lineupItem = rq[r].alone.item

\* C22: the duration given to the substitute error-slate process is at most
\* 60000 ms and at most what remained of the failed item's stream duration when
\* the transcoder failed; for an item without a stream duration it is 30000 ms.
C22_SlateWithinRemainder ==
    \A r \in Reqs :
        (pl[r].procs[2].spawned /\ pl[r].procs[1].role = "transcoder") =>
            LET d == pl[r].procs[2].duration
                sd == pl[r].item.streamDuration
            IN  /\ d <= 60000 \div 1000
                /\ sd # NoVal => d <= sd - pl[r].played
                /\ sd = NoVal => d = 30000 \div 1000

\* C23: the transcoder's output is piped into the sink with end: false, so the
\* end of that output does not close the sink: after the first process ended
\* or failed, and until a substitute's output ends, no pipe has ended the sink.
C23_SinkOpenAfterFirstProcess ==
    \A r \in Reqs :
        (pl[r].procs[1].role = "transcoder" /\ pl[r].procs[1].spawned) =>
            /\ pl[r].procs[1].keepOpen
            /\ "end" \notin pl[r].procs[2].raised => ~pl[r].pipeEnded

\* the transcoder's output ended, then it failed, and the substitute is piped
\* into a sink no pipe has ended
C23_Witness ==
    \E r \in Reqs :
        /\ pl[r].procs[1].role = "transcoder"
        /\ {"end", "error"} \subseteq pl[r].procs[1].raised
        /\ pl[r].procs[2].piped
        /\ pl[r].procs[2].raised = {}
        /\ ~pl[r].pipeEnded

\* the emitter play() returned has emitted 'end'
EndEmitted(p) == \E k \in {1, 2} : <<k, "end">> \in p.emitted

\* C24: once the emitter returned by play() has emitted 'end', for the original
\* process or for the substitute, stop() has run: the player is cleaned up and
\* the sink is terminated, once; an 'error' on the emitter stops nothing: a
\* stream the caller did not stop is stopped only after an 'end'.
C24_EndStopsErrorDoesNot ==
    \A r \in Reqs :
        (rq[r].result = "success" /\ pl[r].outcome = "emitter") =>
            /\ EndEmitted(pl[r]) =>
                  /\ rq[r].stopped
                  /\ rq[r].cleanUps = 1
                  /\ rq[r].sinkEnds = 1
                  /\ pl[r].killed
                  /\ pl[r].cleanUps >= 1
            /\ (rq[r].stopped /\ rq[r].stopCalls = 0) => EndEmitted(pl[r])

\* the transcoder failed, the error went out on the emitter and stopped
\* nothing; the substitute's 'end' then stopped the stream
C24_Witness ==
    \E r \in Reqs :
        /\ rq[r].result = "success"
        /\ <<1, "error">> \in pl[r].emitted
        /\ <<2, "end">> \in pl[r].emitted
        /\ rq[r].stopCalls = 0
        /\ rq[r].stopped
        /\ rq[r].sinkEnds = 1

\* the step out of the walk takes the skip-ahead path exactly when skipping is
\* allowed, the program is offline, the rule for the sole offline slot did not
\* apply and at most SLACK + 1 is left of the slot
C25_SkipTakenExactlyWhen ==
    \A r \in Reqs :
        (rq[r].pc = "resolved" /\ rq'[r] # rq[r]) =>
            LET cp == rq[r].currentProgram IN
            rq'[r].pc = "clear" <=>
                /\ rq[r].allowSkip
                /\ cp.program.type = "offline"
                /\ ~(Len(lineups[rq[r].channel]) = 1 /\ cp.programIndex # -1)
                /\ cp.program.duration - cp.timeElapsed <= SLACK + 1

\* the re-invocation is for the same request, one tick past the end of the
\* slot, with skipping disallowed, and it is the request's first
C25_SkipReinvokes ==
    \A r \in Reqs :
        (rq[r].pc = "clear" /\ rq'[r].pc # "clear") =>
            LET cp == rq[r].currentProgram IN
            /\ rq'[r].t = rq[r].t + (cp.program.duration - cp.timeElapsed) + 1
            /\ ~rq'[r].allowSkip
            /\ rq'[r].channel = rq[r].channel
            /\ rq'[r].session = rq[r].session
            /\ rq[r].skips = 0
            /\ rq'[r].skips = 1

\* C25: startStream takes the skip-ahead path exactly when allowSkip is true,
\* the resolved program is offline, the permanently-offline rule did not apply
\* and duration - elapsed <= SLACK + 1; it then re-invokes itself at
\* startTimestamp + (duration - elapsed) + 1 with skipping disallowed, so a
\* top-level request skips at most once.
C25_SkipAheadPath ==
    /\ [][C25_SkipTakenExactlyWhen /\ C25_SkipReinvokes]_vars
    /\ [](\A r \in Reqs : rq[r].skips \in {0, 1} /\ (rq[r].skips = 1 => ~rq[r].allowSkip))

\* a slot of 40 s with exactly SLACK + 1 = 11 s left at t = 69 was skipped:
\* the re-invocation ran at 69 + 11 + 1
C25_Witness ==
    \E r \in Reqs :
        /\ rq[r].skips = 1
        /\ rq[r].t = 69 + (SLACK + 1) + 1
        /\ ~rq[r].allowSkip
        /\ rq[r].pc = "play"

\* C26: the one-year duration is given to a resolved offline program exactly
\* when the lineup of the channel the program belongs to, the last channel of
\* the redirect chain, is a single slot, however many slots the requested
\* channel's lineup has.
C26_RuleOnResolvedChannel ==
    \A r \in Reqs :
        LET cp == rq[r].currentProgram IN
        (/\ rq[r].pc \in {"clear", "unwind", "play"}
         /\ cp.program.type = "offline"
         /\ cp.programIndex # -1) =>
            (cp.program.duration = OneYear <=> Len(lineups[rq[r].channelContext]) = 1)

Piped(p) == {k \in {1, 2} : p.procs[k].piped}

\* C28: at every moment at most one process is piped into a player's sink, and
\* the player holds at most one process: the piped process is the one it holds
\* (or it holds none, after cleanUp); the failed process is unpiped in the step
\* that pipes the error slate.
C28_OnePipedOneHeld ==
    \A r \in Reqs :
        /\ Cardinality(Piped(pl[r])) <= 1
        /\ pl[r].ffmpeg \in {0, 1, 2}
        /\ \A k \in Piped(pl[r]) : pl[r].ffmpeg \in {0, k}
        /\ pl[r].procs[2].spawned => ~pl[r].procs[1].piped

\* the transcoder was piped and played, failed, and the slate alone is piped
C28_Witness ==
    \E r \in Reqs :
        /\ pl[r].procs[1].role = "transcoder"
        /\ pl[r].played > 0
        /\ Piped(pl[r]) = {2}
        /\ pl[r].ffmpeg = 2

\* C29: the Playback Cache entry written for the requested channel at the
\* request timestamp is the resolved, bounded item and never the throttled
\* 'too many attempts' error item: no entry of the cache ever holds that item,
\* and a throttled request leaves the entry it recorded as it was.
C29_CacheHoldsResolvedItem ==
    /\ \A c \in Channels : cache[c].item.error # "throttle"
    /\ \A r \in Reqs :
          /\ rq[r].pc = "play" =>
                cache[rq[r].channel] = [t |-> rq[r].t, item |-> rq[r].lineupItem]
          /\ (rq[r].pc \in {"awaitPlay", "done"} /\ rq[r].throttled) =>
                /\ rq[r].lineupItem.error = "throttle"
                /\ cache[rq[r].channel].t = rq[r].t
                /\ cache[rq[r].channel].item # rq[r].lineupItem
                /\ cache[rq[r].channel].item.streamDuration
                       <= IF rq[r].upperBound = MAX_SAFE_INTEGER
                          THEN cache[rq[r].channel].item.duration
                          ELSE rq[r].upperBound

\* a throttled request through a redirect: the player got the throttle item,
\* the cache holds the offline item the request resolved, bounded by the hop
C29_Witness ==
    \E r \in Reqs :
        /\ rq[r].pc = "awaitPlay"
        /\ rq[r].throttled
        /\ pl[r].item.error = "throttle"
        /\ Len(rq[r].redirectChannels) = 1
        /\ cache[rq[r].channel].t = rq[r].t
        /\ cache[rq[r].channel].item.type = "offline"
        /\ cache[rq[r].channel].item.streamDuration = rq[r].upperBound

\* an invocation on the skip-ahead path has recorded nothing, has not come to
\* the throttle test and has no player; the entries of the redirecting
\* channels it has gone through so far are cleared
C30_OnSkipPath ==
    \A r \in Reqs :
        rq[r].pc = "clear" =>
            /\ rq[r].writes = 0
            /\ rq[r].lineupItem = NoItem
            /\ ~rq[r].throttled
            /\ rq[r].failedBefore = 0
            /\ pl[r] = NoPlayer
            /\ \A k \in 1..rq[r].i : cache[rq[r].redirectChannels[k]] = NoEntry

\* a request that plays recorded in the invocation that plays, at the
\* timestamp of that invocation
C30_RecordedByThePlayingInvocation ==
    \A r \in Reqs :
        rq[r].pc \in {"play", "awaitPlay"} =>
            /\ rq[r].writes >= 1
            /\ cache[rq[r].channel].t = rq[r].t
            /\ rq[r].pc = "awaitPlay" => pl[r].variant # "none"

\* a step of the skip-ahead path only clears: it leaves the throttle state and
\* the player alone, every cache entry it changes becomes empty, and when the
\* invocation re-invokes every redirecting channel it walked has no entry
C30_SkipStepsOnlyClear ==
    \A r \in Reqs :
        (rq[r].pc = "clear" /\ rq'[r] # rq[r]) =>
            /\ attempts' = attempts
            /\ pl' = pl
            /\ \A c \in Channels : cache'[c] # cache[c] =>
                  /\ cache'[c] = NoEntry
                  /\ c \in Elems(rq[r].redirectChannels)
            /\ rq'[r].pc # "clear" =>
                  /\ cache' = cache
                  /\ \A c \in Elems(rq[r].redirectChannels) : cache[c] = NoEntry
                  /\ rq'[r].writes = 0

\* C30: an invocation of startStream that takes the skip-ahead path clears the
\* Playback Cache entries of every redirecting channel it walked, records no
\* entry of its own, consults no throttle state and creates no player;
\* recording, throttling and playing happen in the re-invocation only.
C30_SkipPathOnlyClears ==
    /\ [](C30_OnSkipPath /\ C30_RecordedByThePlayingInvocation)
    /\ [][C30_SkipStepsOnlyClear]_vars

\* a second request for a redirecting channel, at a timestamp for which the
\* first one left an entry, is about to re-invoke: the entry is cleared
C30_Witness ==
    \E r \in Reqs :
        /\ nreq >= 2
        /\ rq[r].pc = "clear"
        /\ rq[r].i = Len(rq[r].redirectChannels)
        /\ rq[r].i >= 1
        /\ rq[r].channel = rq[r].redirectChannels[1]
        /\ cache[rq[r].channel] = NoEntry
        /\ cache[rq[r].channelContext] # NoEntry

\* C31: the substitute error-slate process is piped into the sink with the
\* keep-open option of the original process, so the end of its output does not
\* close the sink: no pipe ever ends the sink, which only stop() terminates.
C31_SlatePipeKeepsSinkOpen ==
    \A r \in Reqs :
        /\ (pl[r].procs[1].role = "transcoder" /\ pl[r].procs[2].piped) =>
              pl[r].procs[2].keepOpen = pl[r].procs[1].keepOpen
        /\ ~pl[r].pipeEnded

====
